---------------------------- MODULE Spec2Model ----------------------------
(***************************************************************************)
(* A model of bigbrother's recording engine (src/bigbrother/sink.py,       *)
(* BigBrotherSink) and of the handlers of src/bigbrother/cog.py that       *)
(* drive it, over the three tables of src/bigbrother/sql.py.               *)
(*                                                                         *)
(* write is one action.  cleanup_one is one action where it runs          *)
(* undisturbed, and a task that advances step by step, one action per      *)
(* access to shared state, where it runs on a thread of its own: in the    *)
(* pool of cleanup, and in the loop's executor under SpecTeardown.  The    *)
(* teardown (close_voice_client, cleanup) is modelled step by step.        *)
(***************************************************************************)
EXTENDS Integers, Sequences, FiniteSets, TLC

(***************************************************************************)
(* Bounds of the model.                                                    *)
(***************************************************************************)
\* Rows the sessions table may hold (the table is unbounded in the program).
MaxSessions == 2
\* The largest value of the clock read by datetime.utcnow().
MaxClock == 1
\* Sink instances (voice connections) per behaviour.
MaxEngines == 2
\* The split threshold, in bytes.  The program uses bitrate * 30
\* (sink.py:61-63), 1,920,000 bytes at the default bitrate; the model
\* scales it down to a few bytes, a frame being one or two bytes long.
MaxFileLen == 2
\* Frames written for the single speaker of SpecSplit.
MaxFrames == 6

\* Python's None and SQL's NULL: an optional value is a sequence of at most
\* one element, so that a present value is never confused with an absent one.
None == << >>
Some(x) == <<x>>
Val(o) == o[1]

\* Snowflakes of the members that speak.
UserIds == {1, 2}
\* The voice channel the bot is connected to.
ChannelId == 7
\* PCM frames the voice transport delivers (sequences of bytes).
Frames == {<<1>>, <<1, 2>>}
\* Concurrent close_voice_client calls (on_left_alone and the stop command).
Closers == {1, 2}

\* sql.py: class LeaveReason
NATURAL == "NATURAL"
BOT_DISCONNECTED == "BOT_DISCONNECTED"
CONTINUED == "CONTINUED"
LeaveReason == {NATURAL, BOT_DISCONNECTED, CONTINUED}

(***************************************************************************)
(* Dictionaries: functions whose domain is the set of keys.                *)
(***************************************************************************)
EmptyDict == << >>
DictSet(d, k, v) == [x \in DOMAIN d \cup {k} |-> IF x = k THEN v ELSE d[x]]
DictDel(d, k) == [x \in DOMAIN d \ {k} |-> d[x]]
\* d.get(k) and the value of d.pop(k, None)
DictGet(d, k) == IF k \in DOMAIN d THEN Some(d[k]) ELSE None

(***************************************************************************)
(* Byte-stream conversions.                                                *)
(***************************************************************************)
\* The length of the run of byte b that s starts with.
RECURSIVE RunLength(_, _)
RunLength(s, b) ==
    IF s = <<>> \/ Head(s) # b THEN 0 ELSE 1 + RunLength(Tail(s), b)

\* The body of a compressed stream: (count, byte) pairs, one per run.
RECURSIVE Deflate(_)
Deflate(s) ==
    IF s = <<>> THEN <<>>
    ELSE LET n == RunLength(s, Head(s))
         IN  <<n, Head(s)>> \o Deflate(SubSeq(s, n + 1, Len(s)))

RECURSIVE Inflate(_)
Inflate(z) ==
    IF Len(z) < 2 THEN <<>>
    ELSE [i \in 1..z[1] |-> z[2]] \o Inflate(SubSeq(z, 3, Len(z)))

\* zlib.compress: a lossless compressor whose output starts with the zlib
\* header byte (0x78) and is never empty, not even for empty input.
zlib_compress(uncompressed) == <<120>> \o Deflate(uncompressed)

\* zlib.decompress, the inverse of zlib_compress.
zlib_decompress(compressed) == Inflate(Tail(compressed))

\* OGGSink.format_audio: replaces the PCM buffer by its OGG encoding.  The
\* encoder is py-cord's (ffmpeg); the model keeps only that its output is
\* a container page (first byte 'O' of "OggS") around the audio, hence
\* never the PCM bytes themselves.
OGGSink_format_audio(pcm) == <<79>> \o pcm

(***************************************************************************)
(* State.                                                                  *)
(***************************************************************************)
VARIABLES
    \* durable storage (sql.py)
    Users,                   \* users table: user_id -> can_listen
    Sessions,                \* sessions table: the rows, in order of id
    VoiceChannels,           \* voice_channels table: channel_id -> its flags
    \* the voice client of the guild
    connected,               \* guild.voice_client is not None
    recording,               \* voice_client.recording
    \* the sink (BigBrotherSink) of the voice client
    _can_listen_user_cache,  \* user -> bool
    _sessions,               \* user -> session id
    audio_data,              \* user -> the bytes of AudioData.file
    _max_file_len,
    cleanup_event,           \* asyncio.Event: is it set
    finished,
    \* the clock read by datetime.utcnow()
    now,
    \* the teardown
    closer_pc,               \* close_voice_client call -> where it stands
    cleanup_pc,              \* where BigBrotherSink.cleanup stands
    tasks,                   \* <<thread, user>> -> the cleanup_one call there
    \* instrumentation, read by no action
    sink_id,                 \* which sink instance this is
    row_sink,                \* session id -> the sink instance that opened it
    round_trips,             \* storage round trips made by this sink
    event_sets,              \* calls of cleanup_event.set() on this sink
    at_stop,                 \* audio_data and _sessions when recording stopped
    written,                 \* the frames written for the speaker, in order
    \* calls in progress
    write_call,              \* the write call the frame thread is in
    holdup_call              \* the holdup command being served

dbVars == <<Users, Sessions, VoiceChannels>>
vcVars == <<connected, recording>>
sinkVars == <<_can_listen_user_cache, _sessions, audio_data, _max_file_len,
              cleanup_event, finished>>
teardownVars == <<closer_pc, cleanup_pc, tasks>>
ghostVars == <<sink_id, row_sink, round_trips, event_sets, at_stop, written>>
callVars == <<write_call, holdup_call>>
vars == <<dbVars, vcVars, sinkVars, now, teardownVars, ghostVars, callVars>>

\* The frame thread is in no write call.
\* splits counts the splits the call has made so far.
NoWrite == [pc |-> "idle", data |-> << >>, user |-> None, splits |-> 0]

\* No holdup command is being served.  Besides the command's own variables
\* the record keeps the bytes the engine had buffered for `who` when the
\* command began.
NoHoldup ==
    [pc |-> "idle", who |-> None, last |-> None, starting_at |-> None,
     rows |-> << >>, output |-> "none", scratch |-> 0, closed |-> FALSE,
     transcoder |-> None, status |-> None, response |-> None,
     buffered |-> None]

\* Recording has not been stopped.
NotStopped == [audio_data |-> EmptyDict, sessions |-> EmptyDict]

\* No round trip made yet.
NoTrips == [lookup |-> EmptyDict, open |-> 0, commit |-> EmptyDict]

\* The state a handler of the sink reads and writes, as one record.
SinkState ==
    [Users |-> Users, Sessions |-> Sessions,
     cache |-> _can_listen_user_cache, sessions |-> _sessions,
     audio_data |-> audio_data, max_file_len |-> _max_file_len,
     now |-> now, sink_id |-> sink_id, row_sink |-> row_sink,
     round_trips |-> round_trips]

\* The handler's result S becomes the next state.
Becomes(S) ==
    /\ Users' = S.Users
    /\ Sessions' = S.Sessions
    /\ _can_listen_user_cache' = S.cache
    /\ _sessions' = S.sessions
    /\ audio_data' = S.audio_data
    /\ row_sink' = S.row_sink
    /\ round_trips' = S.round_trips

Count(d, k) == IF k \in DOMAIN d THEN d[k] ELSE 0

(***************************************************************************)
(* Storage transactions (each runs on the event loop, atomically).         *)
(***************************************************************************)
\* Mutant: a user without a record is allowed, and no record is made.
check_can_listen_without_insert(S, user) ==
    [S |-> [S EXCEPT !.round_trips.lookup =
                DictSet(@, user, Count(@, user) + 1)],
     result |-> IF user \in DOMAIN S.Users THEN S.Users[user] ELSE TRUE]

\* sink.py:81-94.  rowcount is the number of rows the SELECT matched.
check_can_listen(S, user) ==
    LET counted == [S EXCEPT !.round_trips.lookup =
                        DictSet(@, user, Count(@, user) + 1)]
    IN  IF user \notin DOMAIN S.Users
        THEN [S |-> [counted EXCEPT !.Users = DictSet(@, user, TRUE)],
              result |-> TRUE]
        ELSE [S |-> counted, result |-> S.Users[user]]

\* sink.py:112-120.  The id is the autoincrement primary key.
open_session(S, user) ==
    LET id == Len(S.Sessions) + 1
        row == [id |-> id, channel_id |-> ChannelId, user_id |-> user,
                started_at |-> S.now, ended_at |-> None, data |-> None,
                leave_reason |-> None]
    IN  [S |-> [S EXCEPT !.Sessions = Append(@, row),
                         !.row_sink = Append(@, S.sink_id),
                         !.round_trips.open = @ + 1],
         result |-> id]

\* Mutant: the update leaves the leave reason out.
commit_session_without_reason(S, session_id, data, reason) ==
    [S EXCEPT
        !.Sessions = [i \in DOMAIN S.Sessions |->
            IF Some(S.Sessions[i].id) = session_id
            THEN [S.Sessions[i] EXCEPT !.ended_at = Some(S.now),
                                       !.data = Some(data)]
            ELSE S.Sessions[i]]]

\* sink.py:199-211.  session_id is None when _sessions held no entry: the
\* UPDATE then matches no row.
commit_session(S, session_id, data, reason) ==
    [S EXCEPT
        !.Sessions = [i \in DOMAIN S.Sessions |->
            IF Some(S.Sessions[i].id) = session_id
            THEN [S.Sessions[i] EXCEPT !.ended_at = Some(S.now),
                                       !.data = Some(data),
                                       !.leave_reason = Some(reason)]
            ELSE S.Sessions[i]],
        !.round_trips.commit =
            IF session_id = None THEN @
            ELSE DictSet(@, Val(session_id), Count(@, Val(session_id)) + 1)]

(***************************************************************************)
(* BigBrotherSink.cleanup_one (sink.py:154-217).                           *)
(***************************************************************************)
\* sink.py:170-195: the payload made of the popped buffer.
Payload(pcm) == zlib_compress(OGGSink_format_audio(pcm))

\* sink.py:168-217: with the buffer popped, pop the session id and commit.
finalize(S, user, reason, pcm) ==
    LET session_id == DictGet(S.sessions, user)
        S1 == [S EXCEPT !.audio_data = DictDel(@, user),
                        !.sessions = DictDel(@, user)]
    IN  [S |-> commit_session(S1, session_id, Payload(pcm), reason),
         result |-> session_id]

\* Mutant: a speaker without a buffer is finalized all the same.
cleanup_one_unguarded(S, user, reason) ==
    finalize(S, user, reason,
             IF user \in DOMAIN S.audio_data THEN S.audio_data[user] ELSE <<>>)

cleanup_one(S, user, reason) ==
    LET popped == DictGet(S.audio_data, user)
    IN  IF popped = None
        THEN [S |-> S, result |-> None]
        ELSE finalize(S, user, reason, Val(popped))

(***************************************************************************)
(* BigBrotherSink.write (sink.py:66-138).  self.vc is set by init before   *)
(* the first frame arrives, so the `voice_client is None` return           *)
(* (sink.py:75-77) is never taken.                                         *)
(***************************************************************************)
\* Mutant: every frame looks the user up.
resolve_can_listen_uncached(S, user) ==
    LET r == check_can_listen(S, user)
    IN  [r.S EXCEPT !.cache = DictSet(@, user, r.result)]

\* sink.py:79-97: on a cache miss, look the user up and cache the answer.
resolve_can_listen(S, user) ==
    IF user \notin DOMAIN S.cache
    THEN LET r == check_can_listen(S, user)
         IN  [r.S EXCEPT !.cache = DictSet(@, user, r.result)]
    ELSE S

\* Mutant: the privacy setting is not honoured.
can_listen_ignored(S, user) == TRUE

\* sink.py:99-102: the cached decision gates the frame.
can_listen(S, user) == S.cache[user]

\* sink.py:104-106
ensure_audio_data(S, user) ==
    IF user \notin DOMAIN S.audio_data
    THEN [S EXCEPT !.audio_data = DictSet(@, user, <<>>)]
    ELSE S

\* sink.py:108-124
ensure_session(S, user) ==
    IF user \notin DOMAIN S.sessions
    THEN LET r == open_session(S, user)
         IN  [r.S EXCEPT !.sessions = DictSet(@, user, r.result)]
    ELSE S

\* sink.py:128: the buffer has reached the maximum length.
too_long(S, user) ==
    /\ S.max_file_len # None
    /\ Len(S.audio_data[user]) >= Val(S.max_file_len)

RECURSIVE write(_, _, _)

\* Mutant: the frame that triggers the split is dropped.
split_drops_frame(S, data, user) == cleanup_one(S, user, CONTINUED).S

\* sink.py:133-135: finalize the session and write the frame again.
split(S, data, user) ==
    write(cleanup_one(S, user, CONTINUED).S, data, user)

write(S, data, user) ==
    LET S1 == resolve_can_listen(S, user)
        S3 == ensure_session(ensure_audio_data(S1, user), user)
    IN  IF ~can_listen(S1, user)
        THEN S1
        ELSE IF too_long(S3, user)
             THEN split(S3, data, user)
             ELSE [S3 EXCEPT !.audio_data[user] = @ \o data]

(***************************************************************************)
(* The initial state: the bot has started and is in no voice channel.      *)
(* The users table holds what earlier runs left; the sessions and          *)
(* voice_channels tables are empty.                                        *)
(***************************************************************************)
Dicts(K, V) == UNION {[D -> V] : D \in SUBSET K}

ChannelRows == [can_listen : BOOLEAN, autoconnect : BOOLEAN]

Init ==
    /\ Users \in Dicts(UserIds, BOOLEAN)
    /\ Sessions = <<>>
    /\ VoiceChannels = EmptyDict
    /\ connected = FALSE
    /\ recording = FALSE
    /\ _can_listen_user_cache = EmptyDict
    /\ _sessions = EmptyDict
    /\ audio_data = EmptyDict
    /\ _max_file_len = None
    /\ cleanup_event = FALSE
    /\ finished = FALSE
    /\ now = 0
    /\ closer_pc = [c \in Closers |-> "idle"]
    /\ cleanup_pc = "idle"
    /\ tasks = EmptyDict
    /\ sink_id = 0
    /\ row_sink = <<>>
    /\ round_trips = NoTrips
    /\ event_sets = 0
    /\ at_stop = NotStopped
    /\ written = <<>>
    /\ write_call = NoWrite
    /\ holdup_call = NoHoldup

\* The teardown of the previous sink, if any, is over, and so is every
\* cleanup_one call on it.
NoTeardown ==
    /\ cleanup_pc \in {"idle", "done"}
    /\ \A c \in Closers : closer_pc[c] \in {"idle", "closed", "returned"}
    /\ \A k \in DOMAIN tasks : tasks[k].pc = "done"

(***************************************************************************)
(* BigBrother.connect_and_listen (cog.py:75-114) with bypass = False,      *)
(* with BigBrotherSink.__init__ (sink.py:40-57), and BigBrotherSink.init   *)
(* (sink.py:59-63), which start_recording calls.                           *)
(* The model holds one sink at a time: a new connection is made once the   *)
(* teardown of the previous one is over.                                   *)
(***************************************************************************)
connect_and_listen ==
    /\ ~connected
    /\ NoTeardown
    /\ sink_id < MaxEngines
    /\ IF ChannelId \notin DOMAIN VoiceChannels
       THEN VoiceChannels' = DictSet(VoiceChannels, ChannelId,
                                [can_listen |-> TRUE, autoconnect |-> TRUE])
       ELSE UNCHANGED VoiceChannels
    /\ IF ChannelId \in DOMAIN VoiceChannels
          /\ ~VoiceChannels[ChannelId].can_listen
       THEN UNCHANGED <<vcVars, sinkVars, teardownVars, ghostVars, callVars>>
       ELSE /\ connected' = TRUE
            /\ recording' = TRUE
            /\ _can_listen_user_cache' = EmptyDict
            /\ _sessions' = EmptyDict
            /\ audio_data' = EmptyDict
            /\ _max_file_len' = Some(MaxFileLen)
            /\ cleanup_event' = FALSE
            /\ finished' = FALSE
            /\ closer_pc' = [c \in Closers |-> "idle"]
            /\ cleanup_pc' = "idle"
            /\ tasks' = EmptyDict
            /\ sink_id' = sink_id + 1
            /\ round_trips' = NoTrips
            /\ event_sets' = 0
            /\ at_stop' = NotStopped
            /\ UNCHANGED <<row_sink, written, callVars>>
    /\ UNCHANGED <<Users, Sessions, now>>

(***************************************************************************)
(* BigBrother.on_people_joining (cog.py:116-148): a member joins the       *)
(* voice channel.                                                          *)
(***************************************************************************)
\* Python's `a or b` on booleans.
py_or(a, b) == IF a THEN a ELSE b

\* sql.py:112: VoiceChannels.autoconnect.default.arg
autoconnect_default == TRUE

\* cog.py:138-145
can_autoconnect(channel) ==
    IF channel \in DOMAIN VoiceChannels
    THEN py_or(VoiceChannels[channel].autoconnect, autoconnect_default)
    ELSE autoconnect_default

\* cog.py:130-148: nothing happens if the bot is connected in the guild;
\* else it connects if can_autoconnect says so.
on_people_joining ==
    /\ ~connected
    /\ IF can_autoconnect(ChannelId)
       THEN connect_and_listen
       ELSE UNCHANGED vars

(***************************************************************************)
(* A frame arrives: BigBrotherSink.write(data, user), on the frame         *)
(* delivery thread, while the voice client records.                        *)
(***************************************************************************)
WriteCall(data, user) ==
    /\ connected
    /\ recording
    /\ Becomes(write(SinkState, data, user))
    /\ UNCHANGED <<VoiceChannels, vcVars, _max_file_len, cleanup_event,
                   finished, now, teardownVars, sink_id, event_sets, at_stop>>

\* The sessions table is kept within the model's bound.
Write(data, user) ==
    /\ WriteCall(data, user)
    /\ Len(Sessions') <= MaxSessions
    /\ UNCHANGED <<written, callVars>>

(***************************************************************************)
(* A frame arrives while the storage is failing: the transaction of        *)
(* check_can_listen raises and is rolled back (sink.py:81-94), so          *)
(* `.result()` raises in write (sink.py:96) and write is left.             *)
(***************************************************************************)
\* How many times the storage fails one speaker's lookups, at most.
MaxFaults == 2

\* sink.py:81-96: the round trip is made, the users table is as before.
check_can_listen_raises(S, user) ==
    [S EXCEPT !.round_trips.lookup = DictSet(@, user, Count(@, user) + 1)]

\* Mutant: a failed lookup is cached as a refusal.
resolve_can_listen_raised_cached(S, user) ==
    [check_can_listen_raises(S, user) EXCEPT
        !.cache = DictSet(@, user, FALSE)]

\* sink.py:79-97: the lookup raises before the assignment to the cache.
resolve_can_listen_raised(S, user) == check_can_listen_raises(S, user)

write_raises(data, user) ==
    /\ connected
    /\ recording
    /\ write_call.pc = "idle"
    /\ user \notin DOMAIN _can_listen_user_cache
    /\ Count(round_trips.lookup, user) < MaxFaults
    /\ Becomes(resolve_can_listen_raised(SinkState, user))
    /\ UNCHANGED <<VoiceChannels, vcVars, _max_file_len, cleanup_event,
                   finished, now, teardownVars, sink_id, event_sets, at_stop,
                   written, callVars>>

(***************************************************************************)
(* The same call, one action per stretch of write between two points at    *)
(* which a cleanup_one call on another thread may find the maps changed.   *)
(* Where the call stands:                                                  *)
(*   "idle"      the frame thread is in no call                            *)
(*   "store"     the buffer and the session are ensured (sink.py:104-124)  *)
(*   "KeyError"  `self.audio_data[user]` (sink.py:126) found no buffer     *)
(*   "recurse"   the buffer was full and has been split; write is about to *)
(*               call itself (sink.py:134)                                 *)
(*   "RecursionError"  the interpreter's recursion limit was reached       *)
(***************************************************************************)
\* sink.py:73-124
write_enter(data, user) ==
    /\ connected
    /\ recording
    /\ write_call.pc = "idle"
    /\ LET S1 == resolve_can_listen(SinkState, user)
       IN  IF ~can_listen(S1, user)
           THEN /\ Becomes(S1)
                /\ UNCHANGED write_call
           ELSE /\ Becomes(ensure_session(ensure_audio_data(S1, user), user))
                /\ write_call' = [pc |-> "store", data |-> data,
                                  user |-> Some(user), splits |-> 0]
    /\ Len(Sessions') <= MaxSessions
    /\ UNCHANGED <<VoiceChannels, vcVars, _max_file_len, cleanup_event,
                   finished, now, teardownVars, sink_id, event_sets, at_stop,
                   written, holdup_call>>

\* sink.py:126-138: the buffer is looked up again, and the frame is stored
\* in it, after a split if it is full.
write_store ==
    /\ write_call.pc = "store"
    /\ LET user == Val(write_call.user)
           data == write_call.data
       IN  IF user \notin DOMAIN audio_data
           THEN /\ write_call' = [write_call EXCEPT !.pc = "KeyError"]
                /\ UNCHANGED <<Users, Sessions, _can_listen_user_cache,
                               _sessions, audio_data, row_sink, round_trips,
                               written>>
           ELSE /\ Becomes(IF too_long(SinkState, user)
                           THEN split(SinkState, data, user)
                           ELSE [SinkState EXCEPT
                                    !.audio_data[user] = @ \o data])
                /\ write_call' = NoWrite
                /\ written' = Append(written, data)
    /\ Len(Sessions') <= MaxSessions
    /\ UNCHANGED <<VoiceChannels, vcVars, _max_file_len, cleanup_event,
                   finished, now, teardownVars, sink_id, event_sets, at_stop,
                   holdup_call>>

\* The depth of recursion at which the interpreter raises RecursionError
\* (sys.getrecursionlimit() is 1000 by default; the model takes less).
RecursionLimit == 3

\* sink.py:126-138, the recursion of sink.py:134 taken as a step of its own.
write_store_or_split ==
    /\ write_call.pc = "store"
    /\ LET user == Val(write_call.user)
       IN  /\ user \in DOMAIN audio_data
           /\ IF too_long(SinkState, user)
              THEN IF write_call.splits >= RecursionLimit
                   THEN /\ write_call' =
                               [write_call EXCEPT !.pc = "RecursionError"]
                        /\ UNCHANGED <<Users, Sessions, _can_listen_user_cache,
                                       _sessions, audio_data, row_sink,
                                       round_trips, written>>
                   ELSE /\ Becomes(cleanup_one(SinkState, user, CONTINUED).S)
                        /\ write_call' = [write_call EXCEPT
                                            !.pc = "recurse", !.splits = @ + 1]
                        /\ UNCHANGED written
              ELSE /\ Becomes([SinkState EXCEPT
                                  !.audio_data[user] = @ \o write_call.data])
                   /\ write_call' = NoWrite
                   /\ written' = Append(written, write_call.data)
    /\ UNCHANGED <<VoiceChannels, vcVars, _max_file_len, cleanup_event,
                   finished, now, teardownVars, sink_id, event_sets, at_stop,
                   holdup_call>>

\* sink.py:134: write(data, user) again, up to sink.py:124.
write_recurse ==
    /\ write_call.pc = "recurse"
    /\ LET user == Val(write_call.user)
           S1 == resolve_can_listen(SinkState, user)
       IN  Becomes(ensure_session(ensure_audio_data(S1, user), user))
    /\ write_call' = [write_call EXCEPT !.pc = "store"]
    /\ UNCHANGED <<VoiceChannels, vcVars, _max_file_len, cleanup_event,
                   finished, now, teardownVars, sink_id, event_sets, at_stop,
                   written, holdup_call>>

(***************************************************************************)
(* cleanup_one(user, reason) run in the loop's executor: by                *)
(* on_natural_leave (cog.py:150-169) when a member leaves the channel,     *)
(* and by holdup (cog.py:285-289) before it queries the sessions.          *)
(***************************************************************************)
CleanupOneCall(user, reason) ==
    /\ connected
    /\ LET r == cleanup_one(SinkState, user, reason)
       IN  Becomes(r.S)
    /\ UNCHANGED <<VoiceChannels, vcVars, _max_file_len, cleanup_event,
                   finished, now, teardownVars, sink_id, event_sets, at_stop>>

CleanupOne(user, reason) ==
    /\ CleanupOneCall(user, reason)
    /\ UNCHANGED <<written, callVars>>

on_natural_leave == \E member \in UserIds : CleanupOne(member, NATURAL)

holdup_split == \E who \in UserIds : CleanupOne(who, CONTINUED)

(***************************************************************************)
(* close_voice_client (cog.py:46-62), called by on_left_alone              *)
(* (cog.py:171-193) and by the stop command (cog.py:233-263) when the      *)
(* guild has a voice client.  Where a call stands:                         *)
(*   "idle"    not running                                                 *)
(*   "wait"    stop_recording returned; awaiting sink.cleanup_event        *)
(*   "raised"  stop_recording raised RecordingException (the client was    *)
(*             not recording); `return False` is pending, finally is next  *)
(*   "finally" cleanup_event.wait() returned; finally is next              *)
(*   "closed"  returned True, having stopped the recording                 *)
(*   "returned" returned True, stop_recording having raised                *)
(***************************************************************************)
\* cog.py:53-56.  stop_recording raises unless the client is recording;
\* else it ends the recording, after which the thread that delivered the
\* frames calls sink.cleanup().
close_stop_recording(c) ==
    /\ connected
    /\ closer_pc[c] = "idle"
    /\ IF recording
       THEN /\ recording' = FALSE
            /\ cleanup_pc' = "start"
            /\ at_stop' = [audio_data |-> audio_data, sessions |-> _sessions]
            /\ closer_pc' = [closer_pc EXCEPT ![c] = "wait"]
       ELSE /\ closer_pc' = [closer_pc EXCEPT ![c] = "raised"]
            /\ UNCHANGED <<recording, cleanup_pc, at_stop>>
    /\ UNCHANGED <<dbVars, connected, sinkVars, now, tasks, sink_id,
                   row_sink, round_trips, event_sets, written, callVars>>

\* cog.py:57-59
close_event_wait(c) ==
    /\ closer_pc[c] = "wait"
    /\ cleanup_event
    /\ closer_pc' = [closer_pc EXCEPT ![c] = "finally"]
    /\ UNCHANGED <<dbVars, vcVars, sinkVars, now, cleanup_pc, tasks,
                   ghostVars, callVars>>

\* cog.py:60-62.  The return in the finally clause replaces the pending
\* `return False`.
close_finally(c) ==
    /\ closer_pc[c] \in {"raised", "finally"}
    /\ connected' = FALSE
    /\ closer_pc' = [closer_pc EXCEPT ![c] =
           IF closer_pc[c] = "finally" THEN "closed" ELSE "returned"]
    /\ UNCHANGED <<dbVars, recording, sinkVars, now, cleanup_pc, tasks,
                   ghostVars, callVars>>

\* cog.py:53-56: the value whose return is pending when the finally clause
\* begins: False if stop_recording raised.
pending_return(raised) == ~raised

\* cog.py:60-62: the return in the finally clause replaces the pending one.
finally_return(pending) == TRUE

\* The value a close_voice_client call that is over has returned.
close_voice_client_result(c) ==
    finally_return(pending_return(closer_pc[c] = "returned"))

(***************************************************************************)
(* BigBrotherSink.cleanup (sink.py:140-152), on the worker thread.         *)
(***************************************************************************)
\* The threads that run cleanup_one concurrently with the rest: those of
\* cleanup's pool (sink.py:146) and those of the loop's default executor
\* (cog.py:169 for on_natural_leave, cog.py:289 for holdup).
POOL == "CleanupExecutor"
EXECUTOR == "executor"
HOLDUP == "holdup"

\* A cleanup_one call that has not yet run its first statement.
NewTask(reason) ==
    [pc |-> "pop_audio", reason |-> reason, audio_data |-> None,
     session_id |-> None, result |-> None]

PoolKeys(users) == {<<POOL, user>> : user \in users}
ExecutorKeys == {k \in DOMAIN tasks : k[1] # POOL}
TaskKeys == {POOL, EXECUTOR, HOLDUP} \X UserIds

\* sink.py:146-150: one cleanup_one task per user of audio_data.
cleanup_submit ==
    /\ cleanup_pc = "start"
    /\ finished' = TRUE
    /\ tasks' = [k \in PoolKeys(DOMAIN audio_data) \cup ExecutorKeys |->
                    IF k[1] = POOL THEN NewTask(BOT_DISCONNECTED)
                    ELSE tasks[k]]
    /\ cleanup_pc' = "wait"
    /\ UNCHANGED <<dbVars, vcVars, _can_listen_user_cache, _sessions,
                   audio_data, _max_file_len, cleanup_event, now, closer_pc,
                   ghostVars, callVars>>

\* Mutant: the event is set without waiting for the futures.
futures_not_awaited == TRUE

\* sink.py:150: wait(cleanup_futures)
futures_done ==
    \A k \in DOMAIN tasks : k[1] = POOL => tasks[k].pc = "done"

\* sink.py:151-152: every future is done, the pool is shut down, the event
\* is set.
cleanup_set_event ==
    /\ cleanup_pc = "wait"
    /\ futures_done
    /\ cleanup_event' = TRUE
    /\ event_sets' = event_sets + 1
    /\ cleanup_pc' = "done"
    /\ UNCHANGED <<dbVars, vcVars, _can_listen_user_cache, _sessions,
                   audio_data, _max_file_len, finished, now, closer_pc, tasks,
                   sink_id, row_sink, round_trips, at_stop, written, callVars>>

(***************************************************************************)
(* A cleanup_one call on a thread of its own (sink.py:154-217), one action *)
(* per access to shared state.  A call in the pool stays on record once    *)
(* done, as its future does; a call in the executor is forgotten.          *)
(***************************************************************************)
\* The call k has returned.
Returned(k, result) ==
    IF k[1] = POOL
    THEN [tasks EXCEPT ![k] = [@ EXCEPT !.pc = "done", !.result = result,
                                        !.audio_data = None]]
    ELSE DictDel(tasks, k)

\* cog.py:169: on_natural_leave hands cleanup_one to the loop's executor.
run_in_executor(user, reason) ==
    /\ connected
    /\ <<EXECUTOR, user>> \notin DOMAIN tasks
    /\ tasks' = DictSet(tasks, <<EXECUTOR, user>>, NewTask(reason))
    /\ UNCHANGED <<dbVars, vcVars, sinkVars, now, closer_pc, cleanup_pc,
                   ghostVars, callVars>>

\* sink.py:162-166
task_pop_audio(k) ==
    /\ k \in DOMAIN tasks
    /\ tasks[k].pc = "pop_audio"
    /\ LET popped == DictGet(audio_data, k[2])
       IN  /\ audio_data' = DictDel(audio_data, k[2])
           /\ tasks' = IF popped = None
                       THEN Returned(k, None)
                       ELSE [tasks EXCEPT ![k] =
                                [@ EXCEPT !.pc = "pop_session",
                                          !.audio_data = popped]]
    /\ UNCHANGED <<dbVars, vcVars, _can_listen_user_cache, _sessions,
                   _max_file_len, cleanup_event, finished, now, closer_pc,
                   cleanup_pc, ghostVars, callVars>>

\* Mutant: the session id is read and left in the map.
task_pop_session_kept(k) ==
    /\ k \in DOMAIN tasks
    /\ tasks[k].pc = "pop_session"
    /\ tasks' = [tasks EXCEPT ![k] =
           [@ EXCEPT !.pc = "commit",
                     !.session_id = DictGet(_sessions, k[2])]]
    /\ UNCHANGED <<dbVars, vcVars, sinkVars, now, closer_pc, cleanup_pc,
                   ghostVars, callVars>>

\* sink.py:168
task_pop_session(k) ==
    /\ k \in DOMAIN tasks
    /\ tasks[k].pc = "pop_session"
    /\ _sessions' = DictDel(_sessions, k[2])
    /\ tasks' = [tasks EXCEPT ![k] =
           [@ EXCEPT !.pc = "commit",
                     !.session_id = DictGet(_sessions, k[2])]]
    /\ UNCHANGED <<dbVars, vcVars, _can_listen_user_cache, audio_data,
                   _max_file_len, cleanup_event, finished, now, closer_pc,
                   cleanup_pc, ghostVars, callVars>>

\* sink.py:172-217
task_commit(k) ==
    /\ k \in DOMAIN tasks
    /\ tasks[k].pc = "commit"
    /\ LET S == commit_session(SinkState, tasks[k].session_id,
                               Payload(Val(tasks[k].audio_data)),
                               tasks[k].reason)
       IN  /\ Sessions' = S.Sessions
           /\ round_trips' = S.round_trips
    /\ tasks' = Returned(k, tasks[k].session_id)
    /\ UNCHANGED <<Users, VoiceChannels, vcVars, sinkVars, now, closer_pc,
                   cleanup_pc, sink_id, row_sink, event_sets, at_stop,
                   written, callVars>>

(***************************************************************************)
(* The environment.                                                        *)
(***************************************************************************)
\* Time passes.
Tick ==
    /\ now < MaxClock
    /\ now' = now + 1
    /\ UNCHANGED <<dbVars, vcVars, sinkVars, teardownVars, ghostVars, callVars>>

\* An administrator changes a user's privacy setting (spec, section 3: the
\* access record is "mutated only by an explicit external administrative
\* action").
AdminSetCanListen ==
    /\ \E user \in DOMAIN Users :
          Users' = [Users EXCEPT ![user] = ~Users[user]]
    /\ UNCHANGED <<Sessions, VoiceChannels, vcVars, sinkVars, now,
                   teardownVars, ghostVars, callVars>>

(***************************************************************************)
(* The holdup command (cog.py:265-359): recall what `who` said in the last *)
(* `last` units of time.  One command is served at a time.                 *)
(***************************************************************************)
\* The values of shorthand_to_timedelta(last) (utils.py:34-79), in clock
\* units; None stands for a string on which it raises.
Lookbacks == {None} \cup {Some(t) : t \in 0..MaxClock}

\* The sessions of a user, by id.
SessionsOf(who) == {i \in DOMAIN Sessions : Sessions[i].user_id = who}

\* cog.py:292-298: the start of the user's latest session, None if the
\* user has no session.
last_session(who) ==
    IF SessionsOf(who) = {} THEN None
    ELSE Some(CHOOSE t \in {Sessions[i].started_at : i \in SessionsOf(who)} :
                 \A i \in SessionsOf(who) : Sessions[i].started_at <= t)

\* Mutant: the window is moved when the latest session is the more recent.
resolved_starting_at_later(who, starting_at) ==
    IF last_session(who) # None /\ Val(last_session(who)) > starting_at
    THEN Val(last_session(who))
    ELSE starting_at

\* cog.py:300-303
resolved_starting_at(who, starting_at) ==
    IF last_session(who) # None /\ Val(last_session(who)) < starting_at
    THEN Val(last_session(who))
    ELSE starting_at

\* Mutant: rows without a payload are fetched too.
Matching_any_payload(who, starting_at) ==
    {i \in SessionsOf(who) : Sessions[i].started_at >= starting_at}

\* cog.py:305-310: the rows the SELECT matches.
Matching(who, starting_at) ==
    {i \in SessionsOf(who) : /\ Sessions[i].started_at >= starting_at
                             /\ Sessions[i].data # None}

\* The orders in which a SELECT without ORDER BY may return a set of rows:
\* all of them.
StorageOrders(rows) ==
    {order \in [1..Cardinality(rows) -> rows] :
        \A i, j \in DOMAIN order : i # j => order[i] # order[j]}

\* Mutant: an empty result goes on to the transcoder.
nothing_found_ignored(compressed_chunks) == FALSE

\* cog.py:314
nothing_found(compressed_chunks) == compressed_chunks = << >>

\* cog.py:271-289
holdup_begin(who, last) ==
    /\ holdup_call.pc = "idle"
    /\ IF last = None
       THEN /\ holdup_call' = [NoHoldup EXCEPT !.pc = "done",
                                               !.who = Some(who),
                                               !.response = Some("Invalid time!")]
            /\ UNCHANGED tasks
       ELSE /\ holdup_call' =
                [NoHoldup EXCEPT !.pc = IF connected THEN "cleanup" ELSE "query",
                                 !.who = Some(who),
                                 !.last = last,
                                 !.starting_at = Some(now - Val(last)),
                                 !.buffered = IF connected
                                              THEN DictGet(audio_data, who)
                                              ELSE None]
            /\ tasks' = IF connected
                        THEN DictSet(tasks, <<HOLDUP, who>>, NewTask(CONTINUED))
                        ELSE tasks
    /\ UNCHANGED <<dbVars, vcVars, sinkVars, now, closer_pc, cleanup_pc,
                   ghostVars, write_call>>

\* cog.py:289: the await returns once cleanup_one has.
holdup_cleanup_returns ==
    /\ holdup_call.pc = "cleanup"
    /\ <<HOLDUP, Val(holdup_call.who)>> \notin DOMAIN tasks
    /\ holdup_call' = [holdup_call EXCEPT !.pc = "query"]
    /\ UNCHANGED <<dbVars, vcVars, sinkVars, now, teardownVars, ghostVars,
                   write_call>>

\* cog.py:291-316: the two queries, in one transaction.
holdup_query ==
    /\ holdup_call.pc = "query"
    /\ LET who == Val(holdup_call.who)
           starting_at == resolved_starting_at(who,
                                               Val(holdup_call.starting_at))
       IN  \E compressed_chunks \in StorageOrders(Matching(who, starting_at)) :
               holdup_call' =
                   IF nothing_found(compressed_chunks)
                   THEN [holdup_call EXCEPT
                            !.pc = "done",
                            !.starting_at = Some(starting_at),
                            !.response = Some("They didn't say anything!")]
                   ELSE [holdup_call EXCEPT
                            !.pc = "get_file",
                            !.starting_at = Some(starting_at),
                            !.rows = compressed_chunks]
    /\ UNCHANGED <<dbVars, vcVars, sinkVars, now, teardownVars, ghostVars,
                   write_call>>

\* cog.py:318-329: the chunks are decompressed, each future awaited in the
\* order of the rows, and the output file is allocated.
holdup_get_file ==
    /\ holdup_call.pc = "get_file"
    /\ holdup_call' = [holdup_call EXCEPT !.pc = "materialize",
                                          !.output = "allocated"]
    /\ UNCHANGED <<dbVars, vcVars, sinkVars, now, teardownVars, ghostVars,
                   write_call>>

\* cog.py:332-336: the next chunk gets a scratch file of its own, unless
\* allocating or writing it fails; the error then leaves the `async with`
\* of the output file, which releases that file.
holdup_materialize(ok) ==
    /\ holdup_call.pc = "materialize"
    /\ holdup_call.scratch < Len(holdup_call.rows)
    /\ holdup_call' =
           IF ok
           THEN [holdup_call EXCEPT !.scratch = @ + 1]
           ELSE [holdup_call EXCEPT !.pc = "done",
                                    !.output = "released",
                                    !.response = Some("error")]
    /\ UNCHANGED <<dbVars, vcVars, sinkVars, now, teardownVars, ghostVars,
                   write_call>>

\* What ffmpeg may do once started: exit with status 0 and the output
\* written, or with another status and the output written in part or not
\* at all.
Transcodings ==
    {[status |-> 0, written |-> TRUE], [status |-> 1, written |-> TRUE],
     [status |-> 1, written |-> FALSE]}

\* cog.py:340-359: ffmpeg is started on the scratch files in the order of
\* the rows and awaited, its exit status is not read; the finally clause
\* closes the scratch files; the output file is opened and sent, which
\* raises if there is no such file.  If ffmpeg cannot be started the error
\* propagates after the finally clause.
holdup_transcode(started, ffmpeg) ==
    /\ holdup_call.pc = "materialize"
    /\ holdup_call.scratch = Len(holdup_call.rows)
    /\ holdup_call' =
           IF started
           THEN [holdup_call EXCEPT
                    !.pc = "done",
                    !.transcoder = Some(holdup_call.rows),
                    !.status = Some(ffmpeg.status),
                    !.closed = TRUE,
                    !.output = "released",
                    !.response = IF ffmpeg.written
                                 THEN Some("Here's what they said:")
                                 ELSE Some("error")]
           ELSE [holdup_call EXCEPT !.pc = "done",
                                    !.closed = TRUE,
                                    !.output = "released",
                                    !.response = Some("error")]
    /\ UNCHANGED <<dbVars, vcVars, sinkVars, now, teardownVars, ghostVars,
                   write_call>>

\* The command has been answered; the next one may come.
holdup_end ==
    /\ holdup_call.pc = "done"
    /\ holdup_call' = NoHoldup
    /\ UNCHANGED <<dbVars, vcVars, sinkVars, now, teardownVars, ghostVars,
                   write_call>>

\* The parts of holdup that follow the forced split.
Recall ==
    \/ holdup_query
    \/ holdup_get_file
    \/ \E ok \in BOOLEAN : holdup_materialize(ok)
    \/ \E started \in BOOLEAN, ffmpeg \in Transcodings :
          holdup_transcode(started, ffmpeg)
    \/ holdup_end

(***************************************************************************)
(* The program.  Several specifications, each the part of the program that *)
(* a group of properties is about, so that each can be explored in full:   *)
(*   Spec          one engine after another: frames, natural leaves,       *)
(*                 forced splits and the teardown, while time passes;      *)
(*   SpecAccess    the same with an administrator changing the access      *)
(*                 records, one frame value and no clock;                  *)
(*   SpecTeardown  the teardown with two concurrent close_voice_client     *)
(*                 calls and natural leaves whose cleanup_one runs in the  *)
(*                 executor concurrently with the frames and the teardown, *)
(*                 for one engine and one frame value;                     *)
(*   SpecSplit     one speaker's frames, written one after another and     *)
(*                 then finalized, with the frames on record;              *)
(*   SpecRecall    holdup commands over the sessions earlier engines left, *)
(*                 with the bot in no voice channel;                       *)
(*   SpecLive      one engine and one speaker: the frame thread in the     *)
(*                 steps of write, cleanup_one calls in the executor       *)
(*                 (natural leaves, forced splits) and the teardown,       *)
(*                 while time passes;                                      *)
(*   SpecOverride  one engine constructed with any max_file_len, and one   *)
(*                 speaker, whose write calls are taken one level of       *)
(*                 recursion at a time;                                    *)
(*   SpecFault     one engine, frames and natural leaves, with a storage   *)
(*                 that may fail the lookups of write;                     *)
(*   SpecJoin      members joining the channel, whatever record the        *)
(*                 channel has, frames and the teardown;                   *)
(*   SpecLiveRecall  one engine and one speaker: the frame thread in the   *)
(*                 steps of write and holdup commands from the forced      *)
(*                 split in the executor to the answer, while time passes. *)
(***************************************************************************)
Teardown(closers) ==
    \/ \E c \in closers : close_stop_recording(c)
    \/ \E c \in closers : close_event_wait(c)
    \/ \E c \in closers : close_finally(c)
    \/ cleanup_submit
    \/ cleanup_set_event
    \/ \E k \in TaskKeys : task_pop_audio(k)
    \/ \E k \in TaskKeys : task_pop_session(k)
    \/ \E k \in TaskKeys : task_commit(k)

Next ==
    \/ connect_and_listen
    \/ \E data \in Frames, user \in UserIds : Write(data, user)
    \/ on_natural_leave
    \/ holdup_split
    \/ Teardown({1})
    \/ Tick

Spec == Init /\ [][Next]_vars

NextAccess ==
    \/ connect_and_listen
    \/ \E user \in UserIds : Write(<<1>>, user)
    \/ on_natural_leave
    \/ holdup_split
    \/ Teardown({1})
    \/ AdminSetCanListen

SpecAccess == Init /\ [][NextAccess]_vars

\* on_natural_leave, its cleanup_one running in the executor while the
\* other threads go on; one member leaves at a time.
on_natural_leave_concurrent ==
    /\ ExecutorKeys = {}
    /\ \E member \in UserIds : run_in_executor(member, NATURAL)

NextTeardown ==
    \/ connect_and_listen /\ sink_id = 0
    \/ \E user \in UserIds : Write(<<1>>, user)
    \/ on_natural_leave_concurrent
    \/ Teardown(Closers)

\* No member has a record yet: each is allowed at its first frame.
InitTeardown == Init /\ Users = EmptyDict

SpecTeardown == InitTeardown /\ [][NextTeardown]_vars

\* A finished session, or one whose payload was lost after it finished.
Ended(row, lost) ==
    [row EXCEPT !.ended_at = Some(row.started_at),
                !.leave_reason = Some(NATURAL),
                !.data = IF lost THEN None ELSE Some(Payload(<<row.id>>))]

\* The rows earlier engines may have left in the sessions table: open,
\* finished, or finished and stripped of the payload since; ids and start
\* times in the order of insertion.
StoredSessions ==
    {rows \in UNION {[1..n -> [user_id : UserIds, started_at : 0..MaxClock,
                              state : {"open", "finished", "lost"}]] :
                        n \in 0..MaxSessions} :
        \A i, j \in DOMAIN rows : i < j => rows[i].started_at <= rows[j].started_at}

StoredRow(i, r) ==
    LET row == [id |-> i, channel_id |-> ChannelId, user_id |-> r.user_id,
                started_at |-> r.started_at, ended_at |-> None,
                data |-> None, leave_reason |-> None]
    IN  IF r.state = "open" THEN row ELSE Ended(row, r.state = "lost")

\* The bot has started, is in no voice channel, and finds the sessions of
\* earlier runs.
InitRecall ==
    /\ \E rows \in StoredSessions :
          /\ Sessions = [i \in DOMAIN rows |-> StoredRow(i, rows[i])]
          /\ row_sink = [i \in DOMAIN rows |-> 0]
    /\ now = MaxClock
    /\ Users = EmptyDict
    /\ VoiceChannels = EmptyDict
    /\ connected = FALSE
    /\ recording = FALSE
    /\ _can_listen_user_cache = EmptyDict
    /\ _sessions = EmptyDict
    /\ audio_data = EmptyDict
    /\ _max_file_len = None
    /\ cleanup_event = FALSE
    /\ finished = FALSE
    /\ closer_pc = [c \in Closers |-> "idle"]
    /\ cleanup_pc = "idle"
    /\ tasks = EmptyDict
    /\ sink_id = 0
    /\ round_trips = NoTrips
    /\ event_sets = 0
    /\ at_stop = NotStopped
    /\ written = <<>>
    /\ write_call = NoWrite
    /\ holdup_call = NoHoldup

NextRecall ==
    \/ \E who \in UserIds, last \in Lookbacks : holdup_begin(who, last)
    \/ Recall

SpecRecall == InitRecall /\ [][NextRecall]_vars

\* The speaker of SpecSplit and SpecLive.
Speaker == 1

\* The speaker's session has been finalized otherwise than by a split.
Finalized ==
    \E i \in DOMAIN Sessions :
        Sessions[i].leave_reason \in {Some(NATURAL), Some(BOT_DISCONNECTED)}

SplitWrite ==
    \E data \in Frames :
        /\ ~Finalized
        /\ Len(written) < MaxFrames
        /\ WriteCall(data, Speaker)
        /\ written' = Append(written, data)
        /\ UNCHANGED callVars

NextSplit ==
    \/ connect_and_listen /\ sink_id = 0
    \/ SplitWrite
    \/ CleanupOne(Speaker, NATURAL) /\ written # <<>>
    \/ Teardown({1}) /\ written # <<>>

SpecSplit == Init /\ [][NextSplit]_vars

\* The speaker leaves the channel (cog.py:169), or somebody asks what the
\* speaker said (cog.py:285-289): cleanup_one in the executor, one call at
\* a time.
cleanup_one_concurrent ==
    /\ ExecutorKeys = {}
    /\ \E reason \in {NATURAL, CONTINUED} : run_in_executor(Speaker, reason)

\* sink.cleanup() is called by the thread that delivered the frames, once
\* it is in no write call.
cleanup_after_frames ==
    /\ write_call.pc # "store"
    /\ cleanup_submit

NextLive ==
    \/ connect_and_listen /\ sink_id = 0
    \/ write_enter(<<1>>, Speaker)
    \/ write_store
    \/ cleanup_one_concurrent
    \/ close_stop_recording(1)
    \/ close_event_wait(1)
    \/ close_finally(1)
    \/ cleanup_after_frames
    \/ cleanup_set_event
    \/ \E k \in TaskKeys : task_pop_audio(k)
    \/ \E k \in TaskKeys : task_pop_session(k)
    \/ \E k \in TaskKeys : task_commit(k)
    \/ Tick

SpecLive == InitTeardown /\ [][NextLive]_vars

\* The values of the max_file_len argument of BigBrotherSink (sink.py:43)
\* once init has run (sink.py:59-63): None for no limit, a length given by
\* the caller, or the length derived from the channel's bitrate.
Overrides == {None} \cup {Some(n) : n \in 0..MaxFileLen}

\* A sink constructed with some max_file_len records in the channel.
InitOverride ==
    /\ Users = EmptyDict
    /\ Sessions = <<>>
    /\ VoiceChannels = DictSet(EmptyDict, ChannelId,
                               [can_listen |-> TRUE, autoconnect |-> TRUE])
    /\ connected = TRUE
    /\ recording = TRUE
    /\ _can_listen_user_cache = EmptyDict
    /\ _sessions = EmptyDict
    /\ audio_data = EmptyDict
    /\ _max_file_len \in Overrides
    /\ cleanup_event = FALSE
    /\ finished = FALSE
    /\ now = 0
    /\ closer_pc = [c \in Closers |-> "idle"]
    /\ cleanup_pc = "idle"
    /\ tasks = EmptyDict
    /\ sink_id = 1
    /\ row_sink = <<>>
    /\ round_trips = NoTrips
    /\ event_sets = 0
    /\ at_stop = NotStopped
    /\ written = <<>>
    /\ write_call = NoWrite
    /\ holdup_call = NoHoldup

\* The speaker leaves between two frames.
leave_between_frames ==
    /\ write_call.pc = "idle"
    /\ CleanupOne(Speaker, NATURAL)

\* The next frame of the speaker, while the record of frames has room.
next_frame ==
    /\ Len(written) < MaxFrames
    /\ \E data \in Frames : write_enter(data, Speaker)

NextOverride ==
    \/ next_frame
    \/ write_store_or_split
    \/ write_recurse
    \/ leave_between_frames
    \/ Tick

SpecOverride == InitOverride /\ [][NextOverride]_vars

NextFault ==
    \/ connect_and_listen /\ sink_id = 0
    \/ \E data \in Frames, user \in UserIds : Write(data, user)
    \/ \E data \in Frames, user \in UserIds : write_raises(data, user)
    \/ on_natural_leave

SpecFault == Init /\ [][NextFault]_vars

\* The bot has started; the voice_channels table holds what earlier runs
\* and the administrators left for the channel: no row, or a row with any
\* flags.
InitJoin ==
    /\ Users = EmptyDict
    /\ Sessions = <<>>
    /\ VoiceChannels \in Dicts({ChannelId}, ChannelRows)
    /\ connected = FALSE
    /\ recording = FALSE
    /\ _can_listen_user_cache = EmptyDict
    /\ _sessions = EmptyDict
    /\ audio_data = EmptyDict
    /\ _max_file_len = None
    /\ cleanup_event = FALSE
    /\ finished = FALSE
    /\ now = 0
    /\ closer_pc = [c \in Closers |-> "idle"]
    /\ cleanup_pc = "idle"
    /\ tasks = EmptyDict
    /\ sink_id = 0
    /\ row_sink = <<>>
    /\ round_trips = NoTrips
    /\ event_sets = 0
    /\ at_stop = NotStopped
    /\ written = <<>>
    /\ write_call = NoWrite
    /\ holdup_call = NoHoldup

NextJoin ==
    \/ on_people_joining
    \/ \E user \in UserIds : Write(<<1>>, user)
    \/ Teardown({1})

SpecJoin == InitJoin /\ [][NextJoin]_vars

\* Somebody asks what the speaker said.
holdup_live == \E last \in Lookbacks : holdup_begin(Speaker, last)

NextLiveRecall ==
    \/ connect_and_listen /\ sink_id = 0
    \/ write_enter(<<1>>, Speaker)
    \/ write_store
    \/ holdup_live
    \/ holdup_cleanup_returns
    \/ Recall
    \/ \E k \in TaskKeys : task_pop_audio(k)
    \/ \E k \in TaskKeys : task_pop_session(k)
    \/ \E k \in TaskKeys : task_commit(k)
    \/ Tick

SpecLiveRecall == InitTeardown /\ [][NextLiveRecall]_vars

(***************************************************************************)
(* Properties.                                                             *)
(***************************************************************************)
\* The rows of the sessions table that sink instance k opened.
RowsOf(k) == {i \in DOMAIN Sessions : row_sink[i] = k}

Open(row) ==
    row.ended_at = None /\ row.data = None /\ row.leave_reason = None

Finished(row) ==
    row.ended_at # None /\ row.data # None /\ row.leave_reason # None

\* The access decision of this sink for a user: the cached one, else the
\* one a lookup would give now.
Decision(user) ==
    IF user \in DOMAIN _can_listen_user_cache
    THEN _can_listen_user_cache[user]
    ELSE IF user \in DOMAIN Users THEN Users[user] ELSE TRUE

\* C1: a speaker whose access decision is 'deny' has no buffer, no session
\* and no session row opened by this sink, and a further write(frame, U)
\* returns leaving buffers, sessions and session rows as they are, however
\* many frames were written before.
C1_DeniedNeverRecorded ==
    \A user \in UserIds :
        ~Decision(user) =>
            /\ user \notin DOMAIN audio_data
            /\ user \notin DOMAIN _sessions
            /\ \A i \in RowsOf(sink_id) : Sessions[i].user_id # user
            /\ recording =>
                   \A data \in Frames :
                       LET S == write(SinkState, data, user)
                       IN  /\ S.audio_data = audio_data
                           /\ S.sessions = _sessions
                           /\ S.Sessions = Sessions

\* A denied speaker has been written for (the lookup is made by write)
\* while the sink records another speaker.
C1_Witness ==
    \E user \in UserIds :
        /\ user \in DOMAIN _can_listen_user_cache
        /\ ~_can_listen_user_cache[user]
        /\ Count(round_trips.lookup, user) = 1
        /\ \E i \in RowsOf(sink_id) : Sessions[i].user_id # user

\* The concatenation of a sequence of byte sequences.
RECURSIVE Flatten(_)
Flatten(frames) ==
    IF frames = <<>> THEN <<>> ELSE Head(frames) \o Flatten(Tail(frames))

\* How many of the frames, written in order for one speaker, find the
\* buffer at or over the threshold (len is the buffer's length so far).
RECURSIVE Crossings(_, _)
Crossings(frames, len) ==
    IF frames = <<>> THEN 0
    ELSE IF len >= MaxFileLen
         THEN 1 + Crossings(Tail(frames), Len(Head(frames)))
         ELSE Crossings(Tail(frames), len + Len(Head(frames)))

\* The frames of SpecSplit were written for an allowed speaker, crossed the
\* threshold exactly once, and the speaker's sessions have been finalized.
CrossedOnceAndFinalized ==
    /\ Speaker \in DOMAIN _can_listen_user_cache
    /\ _can_listen_user_cache[Speaker]
    /\ Crossings(written, 0) = 1
    /\ Finalized
    /\ Speaker \notin DOMAIN audio_data
    /\ cleanup_pc \in {"idle", "done"}

TwoSessionsFirstContinued ==
    /\ Len(Sessions) = 2
    /\ \A i \in 1..2 : Sessions[i].user_id = Speaker /\ Finished(Sessions[i])
    /\ Sessions[1].leave_reason = Some(CONTINUED)

\* C2 as claimed: the two payloads, decompressed and concatenated, are the
\* written frames byte for byte.
C2_PayloadsAreTheFrames ==
    CrossedOnceAndFinalized =>
        /\ TwoSessionsFirstContinued
        /\ zlib_decompress(Val(Sessions[1].data))
              \o zlib_decompress(Val(Sessions[2].data)) = Flatten(written)

\* C2, amended: frames of one allowed speaker of which exactly one finds
\* the buffer at or over the threshold give, once finalized, exactly two
\* finished sessions, the first with reason CONTINUED; the written frames
\* are cut in two at a frame boundary, and each payload decompresses to the
\* OGG encoding (format_audio) of its part, not to the part itself.
C2_TwoSessionsHoldTheFrames ==
    CrossedOnceAndFinalized =>
        /\ TwoSessionsFirstContinued
        /\ \E k \in 1..Len(written) :
              /\ zlib_decompress(Val(Sessions[1].data)) =
                     OGGSink_format_audio(Flatten(SubSeq(written, 1, k - 1)))
              /\ zlib_decompress(Val(Sessions[2].data)) =
                     OGGSink_format_audio(
                         Flatten(SubSeq(written, k, Len(written))))

\* Frames with different bytes were split in two sessions and finalized.
C2_Witness ==
    /\ CrossedOnceAndFinalized
    /\ Len(written) >= 3
    /\ \E i, j \in DOMAIN written : written[i] # written[j]

\* write(data, user) is about to split: the speaker's buffer has reached the
\* maximum length.
WillSplit(user) ==
    /\ user \in DOMAIN audio_data
    /\ too_long(SinkState, user)

\* C3: a write that splits finalizes the old session with reason CONTINUED
\* and the payload of the old buffer, and returns with a new session open
\* for the speaker whose buffer is exactly the triggering frame.
C3_SplitKeepsTheFrame ==
    [][\A data \in Frames, user \in UserIds :
          (Write(data, user) /\ WillSplit(user)) =>
              LET old == _sessions[user]
                  new == _sessions'[user]
              IN  /\ Finished(Sessions'[old])
                  /\ Sessions'[old].leave_reason = Some(CONTINUED)
                  /\ Sessions'[old].data = Some(Payload(audio_data[user]))
                  /\ user \in DOMAIN _sessions'
                  /\ new # old
                  /\ Sessions'[new].user_id = user
                  /\ Open(Sessions'[new])
                  /\ audio_data'[user] = data
                  /\ Len(Sessions') = Len(Sessions) + 1]_vars

\* A session of full length was closed with CONTINUED, and its successor is
\* open with one frame in the buffer.
C3_Witness ==
    \E user \in DOMAIN audio_data \cap DOMAIN _sessions :
        LET new == _sessions[user]
        IN  /\ new > 1
            /\ Sessions[new - 1].user_id = user
            /\ Sessions[new - 1].leave_reason = Some(CONTINUED)
            /\ Len(zlib_decompress(Val(Sessions[new - 1].data))) > MaxFileLen
            /\ audio_data[user] \in Frames
            /\ Open(Sessions[new])

\* C4: cleanup_one on a speaker with no buffer returns None and changes
\* nothing, neither in storage nor in the sink; and whatever a first
\* cleanup_one did, a second one directly after it is such a call.
C4_CleanupOneAbsentIsNoOp ==
    \A user \in UserIds, reason \in LeaveReason :
        LET first == cleanup_one(SinkState, user, reason)
            second == cleanup_one(first.S, user, reason)
        IN  /\ user \notin DOMAIN audio_data =>
                   first = [S |-> SinkState, result |-> None]
            /\ second = [S |-> first.S, result |-> None]

\* A speaker was finalized by a natural leave and has no buffer, while the
\* sink still records.
C4_Witness ==
    /\ recording
    /\ \E i \in RowsOf(sink_id) :
          /\ Sessions[i].leave_reason = Some(NATURAL)
          /\ Sessions[i].user_id \notin DOMAIN audio_data

\* What cleanup_one(user, reason) does for a speaker with a buffer and an
\* open session, up to the payload written.
CleanupOneWrites(user, reason, payload) ==
    LET id == _sessions[user]
    IN  /\ cleanup_one(SinkState, user, reason).result = Some(id)
        /\ Sessions' = [Sessions EXCEPT ![id] =
               [@ EXCEPT !.ended_at = Some(now),
                         !.leave_reason = Some(reason),
                         !.data = Some(payload)]]
        /\ audio_data' = DictDel(audio_data, user)
        /\ _sessions' = DictDel(_sessions, user)

BufferedAndOpen(user) ==
    /\ user \in DOMAIN audio_data
    /\ user \in DOMAIN _sessions
    /\ Open(Sessions[_sessions[user]])

\* C5 as claimed: the payload is the compressed form of exactly the bytes
\* buffered.
C5_PayloadIsTheBufferCompressed ==
    [][\A user \in UserIds, reason \in LeaveReason :
          (CleanupOne(user, reason) /\ BufferedAndOpen(user)) =>
              CleanupOneWrites(user, reason,
                               zlib_compress(audio_data[user]))]_vars

\* C5, amended: cleanup_one on a speaker with a buffer and an open session
\* writes the current time as end timestamp, the given reason and the
\* compressed form of the OGG encoding of the buffered bytes to that
\* session's row and to no other, removes the speaker from audio_data and
\* from _sessions, and returns the session's id.
C5_CleanupOneFinalizes ==
    [][\A user \in UserIds, reason \in LeaveReason :
          (CleanupOne(user, reason) /\ BufferedAndOpen(user)) =>
              CleanupOneWrites(user, reason,
                  zlib_compress(OGGSink_format_audio(audio_data[user])))]_vars

\* A session that began earlier was finalized by a natural leave with two
\* frames in its payload.
C5_Witness ==
    \E i \in RowsOf(sink_id) :
        /\ Sessions[i].leave_reason = Some(NATURAL)
        /\ Sessions[i].ended_at = Some(now)
        /\ Sessions[i].started_at < now
        /\ Sessions[i].data = Some(Payload(<<1, 1, 2>>))
        /\ Sessions[i].user_id \notin DOMAIN audio_data \cup DOMAIN _sessions

\* No cleanup_one call is running in the loop's executor.
ExecutorIdle == ExecutorKeys = {}

\* A finished session of the user, opened by this sink, holds these bytes.
FinalizedWith(user, pcm) ==
    \E i \in RowsOf(sink_id) :
        /\ Sessions[i].user_id = user
        /\ Finished(Sessions[i])
        /\ Sessions[i].data = Some(Payload(pcm))

\* C6: once cleanup has set the event (and the executor is idle), each of
\* the N speakers that were buffered when it started has a finished session
\* of its own holding its buffer: the session its task returned, or, if a
\* natural leave took the buffer first, the one that leave finalized; and
\* the event is not set while a task of the pool has yet to commit.
C6_CleanupAllFinalizesEach ==
    /\ (cleanup_pc = "done" /\ ExecutorIdle) =>
           \A k \in DOMAIN tasks :
               FinalizedWith(k[2], at_stop.audio_data[k[2]])
    /\ cleanup_event =>
           \A k \in DOMAIN tasks : k[1] = POOL => tasks[k].pc = "done"

\* C7: the event is unset from construction until cleanup has waited for
\* its futures, it is set once, and once set it stays set for as long as
\* the sink exists.
C7_EventSingleFire ==
    /\ [](/\ event_sets <= 1
          /\ cleanup_event <=> event_sets = 1
          /\ cleanup_event =>
                 /\ cleanup_pc = "done"
                 /\ \A k \in DOMAIN tasks :
                        k[1] = POOL => tasks[k].pc = "done"
          /\ sink_id = 0 => ~cleanup_event)
    /\ [][cleanup_event /\ sink_id' = sink_id => cleanup_event']_vars

\* The event is set, two tasks having committed, and a second
\* close_voice_client call found the client not recording.
C7_Witness ==
    /\ cleanup_event
    /\ event_sets = 1
    /\ \A user \in UserIds :
          /\ <<POOL, user>> \in DOMAIN tasks
          /\ tasks[<<POOL, user>>].result # None
    /\ \E c \in Closers : closer_pc[c] = "returned"

\* C8: once a close_voice_client call that stopped the recording has
\* returned (and the executor is idle), every session row opened by the
\* sink is finished, and every buffer that was held when the recording
\* stopped is the payload of a finished session of its speaker.
C8_TeardownFinalizesAll ==
    \A c \in Closers :
        (closer_pc[c] = "closed" /\ ExecutorIdle) =>
            /\ \A i \in RowsOf(sink_id) : Finished(Sessions[i])
            /\ \A user \in DOMAIN at_stop.audio_data :
                   FinalizedWith(user, at_stop.audio_data[user])

\* write(frame, user) runs with no cached decision for the user.
CacheMiss(user) ==
    /\ user \notin DOMAIN _can_listen_user_cache
    /\ \E data \in Frames : Write(data, user)

\* C9: a write that misses the cache makes one lookup; if the user has no
\* record it inserts one with can_listen = TRUE and the decision is 'allow'
\* (the frame is buffered); if the user has a record the decision is the
\* stored flag and the users table is left as it is.
C9_CacheMissLooksUp ==
    [][\A user \in UserIds :
          CacheMiss(user) =>
              /\ Count(round_trips'.lookup, user) =
                     Count(round_trips.lookup, user) + 1
              /\ user \in DOMAIN _can_listen_user_cache'
              /\ _can_listen_user_cache'[user] <=> user \in DOMAIN audio_data'
              /\ IF user \notin DOMAIN Users
                 THEN /\ Users' = DictSet(Users, user, TRUE)
                      /\ _can_listen_user_cache'[user]
                 ELSE /\ Users' = Users
                      /\ _can_listen_user_cache'[user] = Users[user]]_vars

\* Of two users looked up once each, one is allowed and has a record, the
\* other is denied and has no buffer.
C9_Witness ==
    \E u, v \in DOMAIN _can_listen_user_cache :
        /\ round_trips.lookup[u] = 1
        /\ round_trips.lookup[v] = 1
        /\ _can_listen_user_cache[u]
        /\ u \in DOMAIN Users
        /\ u \in DOMAIN audio_data
        /\ ~_can_listen_user_cache[v]
        /\ v \notin DOMAIN audio_data

\* C10: a sink looks a user up at most once, and the decision it cached
\* never changes while the sink exists; it makes one round trip to open
\* each of its sessions and at most one to finalize each; a new sink
\* starts with an empty cache and no round trip made.
C10_RoundTripsBounded ==
    /\ [](/\ \A user \in UserIds : Count(round_trips.lookup, user) <= 1
          /\ DOMAIN round_trips.lookup = DOMAIN _can_listen_user_cache
          /\ round_trips.open = Cardinality(RowsOf(sink_id))
          /\ \A i \in DOMAIN Sessions : Count(round_trips.commit, i) <= 1)
    /\ [][IF sink_id' = sink_id
          THEN \A user \in DOMAIN _can_listen_user_cache :
                   /\ user \in DOMAIN _can_listen_user_cache'
                   /\ _can_listen_user_cache'[user] =
                          _can_listen_user_cache[user]
          ELSE /\ _can_listen_user_cache' = EmptyDict
               /\ round_trips' = NoTrips]_vars

\* The second sink has looked up, once, a user whom the first sink
\* recorded, and denies that user now.
C10_Witness ==
    /\ sink_id = 2
    /\ \E user \in DOMAIN _can_listen_user_cache :
          /\ round_trips.lookup[user] = 1
          /\ ~_can_listen_user_cache[user]
          /\ \E i \in RowsOf(1) : Sessions[i].user_id = user

\* close_voice_client call c is over.
Over(c) == closer_pc[c] \in {"closed", "returned"}

\* C18: a close_voice_client call that is over has disconnected the voice
\* client, and it returned True if it stopped the recording and False if
\* stop_recording raised.
C18_ReturnsWhetherItStopped ==
    \A c \in Closers :
        Over(c) =>
            /\ ~connected
            /\ close_voice_client_result(c) = (closer_pc[c] = "closed")

\* C19: when a close_voice_client call that stopped the recording
\* disconnects, the event is set, no session row of the sink is open and no
\* cleanup_one call has a buffer it has yet to commit.
C19_DisconnectsAfterFinalize ==
    [][\A c \in Closers :
          (close_finally(c) /\ closer_pc[c] = "finally") =>
              /\ cleanup_event
              /\ \A i \in RowsOf(sink_id) : Finished(Sessions[i])
              /\ \A k \in DOMAIN tasks : tasks[k].audio_data = None]_vars

\* The sessions handed to the transcoder, in the order of its inputs.
TranscoderInputs == Val(holdup_call.transcoder)

\* C11: the inputs handed to the transcoder are in ascending order of the
\* start of their sessions.
C11_InputsInStartOrder ==
    holdup_call.transcoder # None =>
        \A i, j \in DOMAIN TranscoderInputs :
            i < j => Sessions[TranscoderInputs[i]].started_at
                         <= Sessions[TranscoderInputs[j]].started_at

\* The sessions of the speaker that start in the resolved window and have
\* a payload.
InWindow ==
    {i \in DOMAIN Sessions :
        /\ Sessions[i].user_id = Val(holdup_call.who)
        /\ Sessions[i].started_at >= Val(holdup_call.starting_at)
        /\ Sessions[i].data # None}

\* C12: the sessions handed to the transcoder are the sessions of the
\* speaker that start at or after the resolved starting_at and have a
\* payload, each handed once; none is of another speaker, open or without
\* a payload.
C12_InputsAreTheWindow ==
    holdup_call.transcoder # None =>
        /\ {TranscoderInputs[i] : i \in DOMAIN TranscoderInputs} = InWindow
        /\ Len(TranscoderInputs) = Cardinality(InWindow)
        /\ \A i \in DOMAIN TranscoderInputs :
              /\ Sessions[TranscoderInputs[i]].user_id = Val(holdup_call.who)
              /\ ~Open(Sessions[TranscoderInputs[i]])
              /\ Sessions[TranscoderInputs[i]].data # None

\* The transcoder got one session, while a session of the speaker in the
\* window that has ended without a payload was left out.
C12_Witness ==
    /\ holdup_call.transcoder # None
    /\ Len(TranscoderInputs) = 1
    /\ \E i \in DOMAIN Sessions :
          /\ Sessions[i].user_id = Val(holdup_call.who)
          /\ Sessions[i].started_at >= Val(holdup_call.starting_at)
          /\ Sessions[i].ended_at # None
          /\ Sessions[i].data = None

\* The query of the command has been made.
Queried ==
    /\ holdup_call.starting_at # None
    /\ holdup_call.pc \notin {"idle", "cleanup", "query"}

\* C14: a recall whose resolved window holds no finished session with a
\* payload answers that nothing was found, allocates neither the output
\* file nor a scratch file and does not run the transcoder.
C14_NothingFound ==
    (Queried /\ InWindow = {}) =>
        /\ holdup_call.response = Some("They didn't say anything!")
        /\ holdup_call.output = "none"
        /\ holdup_call.scratch = 0
        /\ holdup_call.transcoder = None

\* Nothing was found for a speaker who has sessions, all of them open,
\* without a payload or older than the window.
C14_Witness ==
    /\ Queried
    /\ InWindow = {}
    /\ holdup_call.response = Some("They didn't say anything!")
    /\ \E i, j \in SessionsOf(Val(holdup_call.who)) :
          /\ Sessions[i].data = None
          /\ Sessions[j].data # None

\* C16: when the transcoder exits with a status other than 0, the recall
\* ends in an error and the output file is not sent.
C16_TranscoderFailureReported ==
    (holdup_call.status # None /\ Val(holdup_call.status) # 0) =>
        holdup_call.response = Some("error")

\* C17: when a recall is over, every scratch file it allocated has been
\* closed.
C17_ScratchFilesReleased ==
    (holdup_call.pc = "done" /\ holdup_call.scratch > 0) => holdup_call.closed

\* The bytes format_audio was given, from a payload.
Pcm(data) == Tail(zlib_decompress(data))

\* The bytes in the payloads of the speaker's first n sessions, in the
\* order of the sessions.
RECURSIVE StoredPcm(_)
StoredPcm(n) ==
    IF n = 0 THEN << >>
    ELSE StoredPcm(n - 1) \o
             (IF Sessions[n].user_id = Speaker /\ Sessions[n].data # None
              THEN Pcm(Val(Sessions[n].data))
              ELSE << >>)

\* The teardown is over and no cleanup_one call is running.
AllCleanedUp == cleanup_pc = "done" /\ ExecutorIdle

\* C20: whatever the interleaving of the speaker's write calls with the
\* cleanup_one calls of the executor, no write call raises, and once the
\* final cleanup is over the payloads of the speaker's sessions hold the
\* frames write stored, each once and nothing else.
C20_WriteRacesLoseNothing ==
    /\ write_call.pc # "KeyError"
    /\ AllCleanedUp => StoredPcm(Len(Sessions)) = Flatten(written)

\* The sessions of the speaker that have a payload.
WithPayload(who) == {i \in SessionsOf(who) : Sessions[i].data # None}

\* The latest of them.
MostRecent(who) ==
    CHOOSE m \in WithPayload(who) : \A i \in WithPayload(who) : i <= m

Duration(row) == Val(row.ended_at) - row.started_at

\* C13: when holdup queries the sessions for a lookback shorter than the
\* duration of the speaker's most recent session with a payload, that
\* session is among the rows it fetches, whether or not the speaker is
\* being recorded and sends frames meanwhile.
C13_RecentSessionWhole ==
    [][holdup_query =>
          LET who == Val(holdup_call.who)
          IN  (/\ WithPayload(who) # {}
               /\ Val(holdup_call.last) < Duration(Sessions[MostRecent(who)]))
              => \E j \in DOMAIN holdup_call'.rows :
                     holdup_call'.rows[j] = MostRecent(who)]_vars

IsPrefix(a, b) == Len(a) <= Len(b) /\ SubSeq(b, 1, Len(a)) = a

\* C15: holdup issues its queries only when the cleanup_one call it made
\* for a live engine has returned, and the bytes the engine had buffered
\* for the speaker when the command began are then in the payload of a
\* finished session of the speaker.
C15_SplitBeforeQuery ==
    [][holdup_query =>
          LET who == Val(holdup_call.who)
          IN  /\ <<HOLDUP, who>> \notin DOMAIN tasks
              /\ holdup_call.buffered # None =>
                     \E i \in WithPayload(who) :
                         /\ Finished(Sessions[i])
                         /\ IsPrefix(Val(holdup_call.buffered),
                                     Pcm(Val(Sessions[i].data)))]_vars

\* C21: every row of the sessions table is open (no end, no payload, no
\* reason) or finished (all three), whatever the interleaving of the
\* frames, the cleanup_one calls and the teardown.
C21_RowsOpenOrFinished ==
    \A i \in DOMAIN Sessions : Open(Sessions[i]) \/ Finished(Sessions[i])

\* A session was finalized by a cleanup_one call of the executor while
\* another session of the speaker is open.
C21_Witness ==
    /\ \E i \in DOMAIN Sessions :
          Finished(Sessions[i]) /\ Sessions[i].leave_reason = Some(NATURAL)
    /\ \E i \in DOMAIN Sessions : Open(Sessions[i])

\* The open sessions of a user among those the current sink opened.
OpenSessions(user) ==
    {i \in RowsOf(sink_id) : Sessions[i].user_id = user /\ Open(Sessions[i])}

\* C22: at any moment each speaker has at most one open session among
\* those the engine opened.
C22_OneOpenSession ==
    \A user \in UserIds : Cardinality(OpenSessions(user)) <= 1

\* C23: a session's row is committed at most once, and a finished row is
\* never changed again, also when two cleanup_one calls run for the same
\* speaker at once.
C23_FinishedRowsFrozen ==
    /\ [](\A i \in DOMAIN round_trips.commit : round_trips.commit[i] <= 1)
    /\ [][\A i \in DOMAIN Sessions :
             Finished(Sessions[i]) =>
                 /\ i \in DOMAIN Sessions'
                 /\ Sessions'[i] = Sessions[i]]_vars

\* A session of the speaker is finished while a cleanup_one call of the
\* executor and one of cleanup's pool, both for the speaker, have each
\* popped a buffer and are about to commit.
C23_Witness ==
    /\ \E i \in DOMAIN Sessions :
          Sessions[i].user_id = Speaker /\ Finished(Sessions[i])
    /\ \A t \in {POOL, EXECUTOR} :
          /\ <<t, Speaker>> \in DOMAIN tasks
          /\ tasks[<<t, Speaker>>].pc = "commit"

\* C24: whenever the buffer of a speaker holds a frame, the session map
\* names for that speaker a row of the sessions table that is still open.
C24_BufferedFramesHaveSession ==
    \A user \in DOMAIN audio_data :
        audio_data[user] # << >> =>
            /\ user \in DOMAIN _sessions
            /\ _sessions[user] \in DOMAIN Sessions
            /\ Open(Sessions[_sessions[user]])

\* C25: whatever max_file_len the sink was constructed with, a write call
\* splits at most once and returns.
C25_WriteSplitsAtMostOnce ==
    /\ write_call.splits <= 1
    /\ write_call.pc # "RecursionError"

\* C26: every session finished with reason CONTINUED has a successor: a
\* later session of the same speaker opened by the same sink.
C26_ContinuedHasSuccessor ==
    \A i \in DOMAIN Sessions :
        Sessions[i].leave_reason = Some(CONTINUED) =>
            \E j \in DOMAIN Sessions :
                /\ j > i
                /\ Sessions[j].user_id = Sessions[i].user_id
                /\ row_sink[j] = row_sink[i]

\* The start times of the speaker's sessions.
Starts(who) == {Sessions[i].started_at : i \in SessionsOf(who)}

\* C27 as claimed: if the speaker's latest session started more recently
\* than now - lookback, the window starts at that session's start;
\* otherwise it starts at now - lookback.
C27_WindowMovedToLaterStart ==
    [][holdup_query =>
          LET who == Val(holdup_call.who)
              requested == Val(holdup_call.starting_at)
              resolved == Val(holdup_call'.starting_at)
          IN  IF \E t \in Starts(who) : t > requested
              THEN /\ resolved \in Starts(who)
                   /\ \A t \in Starts(who) : t <= resolved
              ELSE resolved = requested]_vars

\* C27, amended: if the speaker's latest session started before
\* now - lookback, the window is widened to start at that session's start;
\* otherwise (no session, or the latest one started at or after
\* now - lookback) it starts at now - lookback.
C27_WindowWidenedToEarlierStart ==
    [][holdup_query =>
          LET who == Val(holdup_call.who)
              requested == Val(holdup_call.starting_at)
              resolved == Val(holdup_call'.starting_at)
          IN  IF Starts(who) # {} /\ \A t \in Starts(who) : t < requested
              THEN /\ resolved \in Starts(who)
                   /\ \A t \in Starts(who) : t <= resolved
              ELSE resolved = requested]_vars

\* A recall has queried with a window wider than the lookback asked for.
C27_Witness ==
    /\ Queried
    /\ holdup_call.last # None
    /\ Val(holdup_call.starting_at) < now - Val(holdup_call.last)

\* C28: a write whose lookup of the access decision fails leaves the
\* cache, the buffers, the session map and the sessions table as they
\* were, so that the speaker's next frame is looked up again.
C28_FailedLookupChangesNothing ==
    [][\A data \in Frames, user \in UserIds :
          write_raises(data, user) =>
              /\ _can_listen_user_cache' = _can_listen_user_cache
              /\ user \notin DOMAIN _can_listen_user_cache'
              /\ audio_data' = audio_data
              /\ _sessions' = _sessions
              /\ Sessions' = Sessions
              /\ Users' = Users]_vars

\* A speaker's lookup failed, and a frame of the speaker that came later
\* was looked up again and is in the buffer.
C28_Witness ==
    \E user \in UserIds :
        /\ Count(round_trips.lookup, user) = 2
        /\ user \in DOMAIN _can_listen_user_cache
        /\ user \in DOMAIN audio_data
        /\ audio_data[user] # << >>

\* C29: when a member's joining makes the bot connect, the channel has no
\* record or its stored autoconnect flag is true.
C29_NoAutoJoinWhenFlagFalse ==
    [][(on_people_joining /\ connected') =>
          \/ ChannelId \notin DOMAIN VoiceChannels
          \/ VoiceChannels[ChannelId].autoconnect]_vars

=============================================================================
